---- MODULE Spec2Model ----
(***************************************************************************)
(* Model of the websocket candle store of neurabot                          *)
(* (src/data/ws_candles.py): Candle, CandleHistory and WsCandleStore.       *)
(*                                                                          *)
(* Candle objects are mutable Python objects, so the model keeps them in a  *)
(* heap addressed by object identity; a deque holds identities, and a dict  *)
(* returned by to_dict holds values.                                        *)
(***************************************************************************)
EXTENDS Integers, Sequences, FiniteSets, TLC

VARIABLES
    histories,   \* WsCandleStore._histories: coin -> CandleHistory
    heap,        \* the Candle objects: identity -> fields, or NoObject
    result,      \* the list the last get_candles call returned
    lastCall,    \* the last get_candles call: its arguments and when it was made
    trace,       \* the trades folded so far, in delivery order (history variable)
    running,     \* WsCandleStore._running
    subscribed_coins,  \* WsCandleStore._subscribed_coins
    tasks,       \* the _ws_loop tasks created so far, each with its position and locals
    ws_task,     \* WsCandleStore._ws_task: an index into tasks, or 0 for None
    awaited,     \* the tasks that callers suspended in stop() are awaiting
    fails,       \* per task, the failures since it last reached streaming (history variable)
    websockets,  \* whether the websockets library could be imported
    lastFrame,   \* the frame last received, where a specification records it (history variable)
    main         \* main_loop of bot.py: its position and its locals

storeVars == <<histories, heap, result, lastCall, trace, lastFrame, main>>

loopVars == <<running, subscribed_coins, tasks, ws_task, awaited, fails, websockets>>

vars == <<histories, heap, result, lastCall, trace, lastFrame, main,
          running, subscribed_coins, tasks, ws_task, awaited, fails, websockets>>

----------------------------------------------------------------------------
(* Bounds and program constants *)

\* WsCandleStore.__init__ default bucket width, 15 * 60 * 1000 ms
BucketMs == 900000

\* WsCandleStore.max_candles (a constructor parameter, 200 by default)
MaxCandles == 2

\* buckets 0 .. MaxBucket are traded: one more bucket than a history retains
MaxBucket == MaxCandles

\* trades folded in one run of SpecFold: more than max_candles
MaxTrades == MaxCandles + 1

\* consecutive connection failures followed: past the 60 s cap, reached at 12
MaxFailures == 13

\* _ws_loop tasks created in one run
MaxTasks == 2

\* trades folded in one run of Spec
MaxStoreTrades == 2

\* records in one trades batch
MaxBatch == 2

\* failures of the loop followed in one run of Spec
MaxStoreFailures == 1

\* cfg.risk.max_positions as the model configures it
MaxPositions == 2

\* the signals one call of generate_signals_for_universe returns, at most
MaxSignals == 3

\* bot.py CANDLE_LIMIT
CANDLE_LIMIT == 100

\* cfg.risk.risk_per_trade_pct is 1 / RiskPctDen
RiskPctDen == 100

Coins == {"BTC", "ETH"}

\* the coin lists start() is called with
CoinLists == {<<>>, <<"BTC">>, <<"BTC", "ETH">>}

\* the ticks traded, <<offset in the bucket, price>>: three in the first
\* bucket, two in each later one
Ticks(b) == IF b = 0 THEN {<<0, 100>>, <<1, 105>>, <<2, 95>>}
            ELSE {<<0, 105>>, <<1, 95>>}

Trades ==
    UNION {{[ts |-> b * BucketMs + k[1], px |-> k[2]] : k \in Ticks(b)} : b \in 0..MaxBucket}

\* the limits a reader asks for
Limits == {0, 1, MaxCandles, MaxCandles + 10}

----------------------------------------------------------------------------
(* Python helpers *)

Max(a, b) == IF a >= b THEN a ELSE b

Min(a, b) == IF a <= b THEN a ELSE b

Range(s) == {s[i] : i \in 1..Len(s)}

NoObject == [none |-> TRUE]

\* object identities: per coin, enough for a full deque, the candle being
\* appended and the candles a returned list may still reference
Slots == 2 * MaxCandles + 1

Ids == Coins \X (1..Slots)

\* dataclass Candle
Candle(t, o, h, l, c) == [t |-> t, o |-> o, h |-> h, l |-> l, c |-> c]

\* Candle.to_dict: a fresh dict holding the field values
to_dict_alias(m, id) == [ref |-> id]

to_dict(m, id) ==
    LET self == m.heap[id]
    IN  [t |-> self.t, o |-> self.o, h |-> self.h, l |-> self.l, c |-> self.c]

\* what a holder of a returned element reads through it
Deref(hp, e) == IF "ref" \in DOMAIN e THEN hp[e.ref] ELSE e

\* collections.deque(maxlen=...).append
DequeAppendDropNewest(d, x, maxlen) ==
    IF Len(d) >= maxlen THEN d ELSE Append(d, x)

DequeAppend(d, x, maxlen) ==
    IF maxlen = 0 THEN <<>>
    ELSE IF Len(d) >= maxlen THEN Append(Tail(d), x)
    ELSE Append(d, x)

\* a fresh object identity for a Candle of this coin
NewId(m, coin) ==
    <<coin, CHOOSE k \in 1..Slots :
                /\ m.heap[<<coin, k>>] = NoObject
                /\ \A j \in 1..(k - 1) : m.heap[<<coin, j>>] # NoObject>>

\* WsCandleStore._ensure_history
ensure_history(m, coin) ==
    IF coin \notin DOMAIN m.histories
    THEN [m EXCEPT !.histories =
              (coin :> [candles |-> <<>>, bucket_ms |-> BucketMs]) @@ m.histories]
    ELSE m

\* the bucket a timestamp falls in (Python's % is the floor modulus)
bucket_start(ts_ms, bucket_ms) == ts_ms - (ts_ms % bucket_ms)

\* CandleHistory.add_trade on the history of coin; m is the store's memory
add_trade_set_open(m, coin, ts_ms, price) ==
    LET hist == m.histories[coin]
        bs   == bucket_start(ts_ms, hist.bucket_ms)
        n    == Len(hist.candles)
    IN  IF n = 0 \/ m.heap[hist.candles[n]].t # bs
        THEN LET id == NewId(m, coin)
             IN  [histories |-> [m.histories EXCEPT ![coin].candles =
                                     DequeAppend(@, id, MaxCandles)],
                  heap |-> [m.heap EXCEPT ![id] = Candle(bs, price, price, price, price)]]
        ELSE LET id == hist.candles[n]
                 c  == m.heap[id]
             IN  [m EXCEPT !.heap[id] = [c EXCEPT !.o = price,
                                                  !.h = Max(c.h, price),
                                                  !.l = Min(c.l, price),
                                                  !.c = price]]

add_trade_no_low(m, coin, ts_ms, price) ==
    LET hist == m.histories[coin]
        bs   == bucket_start(ts_ms, hist.bucket_ms)
        n    == Len(hist.candles)
    IN  IF n = 0 \/ m.heap[hist.candles[n]].t # bs
        THEN LET id == NewId(m, coin)
             IN  [histories |-> [m.histories EXCEPT ![coin].candles =
                                     DequeAppend(@, id, MaxCandles)],
                  heap |-> [m.heap EXCEPT ![id] = Candle(bs, price, price, price, price)]]
        ELSE LET id == hist.candles[n]
                 c  == m.heap[id]
             IN  [m EXCEPT !.heap[id] = [c EXCEPT !.h = Max(c.h, price),
                                                  !.c = price]]

\* a fold that looks the bucket up in the whole history
add_trade_backfill(m, coin, ts_ms, price) ==
    LET hist == m.histories[coin]
        bs   == bucket_start(ts_ms, hist.bucket_ms)
        hit  == {i \in 1..Len(hist.candles) : m.heap[hist.candles[i]].t = bs}
    IN  IF hit = {}
        THEN LET id == NewId(m, coin)
             IN  [histories |-> [m.histories EXCEPT ![coin].candles =
                                     DequeAppend(@, id, MaxCandles)],
                  heap |-> [m.heap EXCEPT ![id] = Candle(bs, price, price, price, price)]]
        ELSE LET id == hist.candles[CHOOSE i \in hit : TRUE]
                 c  == m.heap[id]
             IN  [m EXCEPT !.heap[id] = [c EXCEPT !.h = Max(c.h, price),
                                                  !.l = Min(c.l, price),
                                                  !.c = price]]

\* a body that compares the last candle's open time with the trade's
\* timestamp instead of its bucket
add_trade_raw_ts(m, coin, ts_ms, price) ==
    LET hist == m.histories[coin]
        bs   == bucket_start(ts_ms, hist.bucket_ms)
        n    == Len(hist.candles)
    IN  IF n = 0 \/ m.heap[hist.candles[n]].t # ts_ms
        THEN LET id == NewId(m, coin)
             IN  [histories |-> [m.histories EXCEPT ![coin].candles =
                                     DequeAppend(@, id, MaxCandles)],
                  heap |-> [m.heap EXCEPT ![id] = Candle(bs, price, price, price, price)]]
        ELSE LET id == hist.candles[n]
                 c  == m.heap[id]
             IN  [m EXCEPT !.heap[id] = [c EXCEPT !.h = Max(c.h, price),
                                                  !.l = Min(c.l, price),
                                                  !.c = price]]

add_trade(m, coin, ts_ms, price) ==
    LET hist == m.histories[coin]
        bs   == bucket_start(ts_ms, hist.bucket_ms)
        n    == Len(hist.candles)
    IN  IF n = 0 \/ m.heap[hist.candles[n]].t # bs
        THEN \* start a new candle
             LET id == NewId(m, coin)
             IN  [histories |-> [m.histories EXCEPT ![coin].candles =
                                     DequeAppend(@, id, MaxCandles)],
                  heap |-> [m.heap EXCEPT ![id] = Candle(bs, price, price, price, price)]]
        ELSE LET id == hist.candles[n]
                 c  == m.heap[id]
             IN  [m EXCEPT !.heap[id] = [c EXCEPT !.h = Max(c.h, price),
                                                  !.l = Min(c.l, price),
                                                  !.c = price]]

\* CandleHistory.get_last: [c.to_dict() for c in list(self.candles)[-limit:]]
get_last(m, coin, limit) ==
    LET cs    == m.histories[coin].candles
        n     == Len(cs)
        \* the slice [-limit:] starts at n - limit clamped to 0 for a positive
        \* limit, at 0 for -0, and at -limit clamped to n for a negative one
        start == IF limit > 0 THEN Max(n - limit, 0) ELSE Min(0 - limit, n)
    IN  [i \in 1..(n - start) |-> to_dict(m, cs[start + i])]

\* the body of WsCandleStore.get_candles under the lock: the returned list
\* and the memory the call leaves
get_candles_creating(m, coin, limit) ==
    LET m2 == ensure_history(m, coin)
    IN  [ret |-> get_last(m2, coin, limit), mem |-> m2, raised |-> FALSE]

get_candles(m, coin, limit) ==
    IF coin \notin DOMAIN m.histories
    THEN [ret |-> <<>>, mem |-> m, raised |-> FALSE]
    ELSE [ret |-> get_last(m, coin, limit), mem |-> m, raised |-> FALSE]

\* NeurabotExchange.get_candles_async: created says whether get_ws_store()
\* has made the module's store object; a store that exists is read whether
\* or not it was started
get_candles_async(created, m, coin, timeframe, limit) ==
    IF timeframe # "15m" THEN [ret |-> <<>>, mem |-> m, raised |-> TRUE]
    ELSE IF ~created THEN [ret |-> <<>>, mem |-> m, raised |-> TRUE]
    ELSE get_candles(m, coin, limit)

\* reference counting: a Candle no deque and no returned list holds is freed
Reachable(hs, res) ==
    UNION {Range(hs[c].candles) : c \in DOMAIN hs}
        \cup {res[i].ref : i \in {j \in 1..Len(res) : "ref" \in DOMAIN res[j]}}

Collect(hp, hs, res) ==
    [id \in Ids |-> IF id \in Reachable(hs, res) THEN hp[id] ELSE NoObject]

Memory == [histories |-> histories, heap |-> heap]

\* the candles of a coin's history, oldest first
CandlesOf(coin) ==
    IF coin \in DOMAIN histories
    THEN [i \in 1..Len(histories[coin].candles) |-> heap[histories[coin].candles[i]]]
    ELSE <<>>

----------------------------------------------------------------------------
(* The _ws_loop coroutine: pc is the await it is suspended at *)

Task(pc, coins, next, rc, backoff) ==
    [pc |-> pc, coins |-> coins, next |-> next, reconnect_count |-> rc, backoff |-> backoff]

\* asyncio.create_task(self._ws_loop(coins=coins)): scheduled, not yet run
NewTask(coins) == Task("created", coins, 0, 0, 0)

\* the coroutine returned, or CancelledError left it: its frame is gone
Ended(t, how) == Task(how, t.coins, 0, 0, 0)

Terminal == {"returned", "cancelled"}

Cancelling == {"cancelling", "cancelling_open"}

\* the transport connection of websockets.connect is open
HasConnection(t) == t.pc \in {"subscribing", "streaming", "cancelling_open"}

\* while self._running: the next connection attempt, or the end of the loop
loop_top(t, run) ==
    IF run THEN [t EXCEPT !.pc = "connecting", !.next = 0] ELSE Ended(t, "returned")

\* the first run of the task, up to its first await
first_step(t, run, lib) ==
    IF ~lib THEN Ended(t, "returned")
    ELSE loop_top([t EXCEPT !.reconnect_count = 0], run)

\* all subscriptions sent: the counter is reset and the loop listens
on_subscribed(t) ==
    [t EXCEPT !.reconnect_count = 0, !.pc = "streaming", !.next = 0]

\* the handshake succeeded: the first ws.send, or none for an empty coin list
on_connected_reset(t) ==
    IF t.coins = <<>> THEN on_subscribed(t)
    ELSE [t EXCEPT !.reconnect_count = 0, !.pc = "subscribing", !.next = 1]

on_connected(t) ==
    IF t.coins = <<>> THEN on_subscribed(t)
    ELSE [t EXCEPT !.pc = "subscribing", !.next = 1]

\* a loop that listens after its first send
on_sent_first_only(t) == on_subscribed(t)

\* one ws.send returned
on_sent(t) ==
    IF t.next = Len(t.coins) THEN on_subscribed(t)
    ELSE [t EXCEPT !.next = @ + 1]

\* min(5 * reconnect_count, 60)
backoff_delay(reconnect_count) == Min(5 * reconnect_count, 60)

\* a handler that gives up: the exception ends the loop
on_exception_fatal(t) == Ended(t, "returned")

\* except Exception: count, compute the delay, sleep
on_exception(t) ==
    [t EXCEPT !.reconnect_count = @ + 1,
              !.backoff = backoff_delay(t.reconnect_count + 1),
              !.pc = "sleeping",
              !.next = 0]

\* Task.cancel(): CancelledError is thrown into the coroutine when it next
\* runs; it is not an Exception, so the loop's handler lets it through and
\* the locals are never read again
cancel_flag_only(t) == t

cancel_done_too(t) ==
    Task(IF HasConnection(t) THEN "cancelling_open" ELSE "cancelling", t.coins, 0, 0, 0)

cancel(t) ==
    IF t.pc \in Terminal \cup Cancelling THEN t
    ELSE Task(IF HasConnection(t) THEN "cancelling_open" ELSE "cancelling",
              t.coins, 0, 0, 0)


----------------------------------------------------------------------------
(* Frames received from the transport, and _handle_msg *)

\* a field of a JSON trade record: a number (possibly string-encoded), a
\* value float()/int() cannot parse, or a missing/null field
Num(v) == [kind |-> "num", v |-> v]

Unparsable == [kind |-> "bad"]

Missing == [kind |-> "none"]

\* an element of a trades batch: a JSON object, or some other JSON value
Record(coin, px, time) == [shape |-> "mapping", coin |-> coin, px |-> px, time |-> time]

NotMapping == [shape |-> "other"]

\* a record the loop body folds: coin set, px and time present and parsable
IsTrade(rec) ==
    /\ rec.shape = "mapping"
    /\ rec.coin # ""
    /\ rec.px.kind = "num"
    /\ rec.time.kind = "num"

\* the payloads of a message's "data" key
DataList(items) == [kind |-> "list", items |-> items]

DataObject == [kind |-> "object"]

DataNull == [kind |-> "null"]

DataMissing == [kind |-> "missing"]

DataScalar == [kind |-> "scalar"]

\* raw frames: text that is not JSON, JSON that is not an object, an object
BadJson == [json |-> FALSE]

NotObject == [json |-> TRUE, type |-> "other"]

Message(channel, data) ==
    [json |-> TRUE, type |-> "object", channel |-> channel, data |-> data]

\* a body that makes the history before it parses the record
handle_trade_eager(m, trade) ==
    IF trade.shape # "mapping" THEN m
    ELSE IF trade.coin = "" \/ trade.px.kind = "none" \/ trade.time.kind = "none"
    THEN m
    ELSE IF trade.px.kind # "num" THEN ensure_history(m, trade.coin)
    ELSE IF trade.time.kind # "num" THEN ensure_history(m, trade.coin)
    ELSE add_trade(ensure_history(m, trade.coin), trade.coin, trade.time.v, trade.px.v)

\* a body that keeps one history for the whole channel
handle_trade_one_history(m, trade) ==
    IF trade.shape # "mapping" THEN m
    ELSE IF trade.coin = "" \/ trade.px.kind = "none" \/ trade.time.kind = "none"
    THEN m
    ELSE IF trade.px.kind # "num" THEN m
    ELSE IF trade.time.kind # "num" THEN m
    ELSE add_trade(ensure_history(m, "BTC"), "BTC", trade.time.v, trade.px.v)

\* the body of the for loop of _handle_msg for one element of the batch
handle_trade(m, trade) ==
    IF trade.shape # "mapping" THEN m             \* trade.get raises, caught
    ELSE IF trade.coin = "" \/ trade.px.kind = "none" \/ trade.time.kind = "none"
    THEN m                                        \* continue
    ELSE IF trade.px.kind # "num" THEN m          \* float(px_str) raises, caught
    ELSE IF trade.time.kind # "num" THEN m        \* int(ts) raises, caught
    ELSE add_trade(ensure_history(m, trade.coin), trade.coin, trade.time.v, trade.px.v)

\* a loop whose try encloses the whole for: the first bad record ends the batch
RECURSIVE handle_batch_abort(_, _)
handle_batch_abort(m, data) ==
    IF data = <<>> THEN m
    ELSE IF ~IsTrade(Head(data)) THEN m
    ELSE handle_batch_abort(handle_trade(m, Head(data)), Tail(data))

RECURSIVE handle_batch(_, _)
handle_batch(m, data) ==
    IF data = <<>> THEN m
    ELSE handle_batch(handle_trade(m, Head(data)), Tail(data))

\* WsCandleStore._handle_msg on a decoded message: the memory it leaves and
\* whether an exception escapes it
handle_msg(m, msg) ==
    IF msg.type # "object" THEN [mem |-> m, raised |-> TRUE]      \* msg.get
    ELSE IF msg.channel = "subscriptionResponse"
    THEN \* msg.get("data", {}).get("method")
         [mem |-> m, raised |-> msg.data.kind \notin {"object", "missing"}]
    ELSE IF msg.channel # "trades" THEN [mem |-> m, raised |-> FALSE]
    ELSE IF msg.data.kind # "list" THEN [mem |-> m, raised |-> FALSE]
    ELSE [mem |-> handle_batch(m, msg.data.items), raised |-> FALSE]

\* one iteration of "async for raw in ws": json.loads, then _handle_msg
on_frame(m, raw) ==
    IF ~raw.json THEN [mem |-> m, raised |-> FALSE]               \* continue
    ELSE handle_msg(m, raw)

\* the trades of a frame that get folded, in batch order
Folded(raw) ==
    IF raw.json /\ raw.type = "object" /\ raw.channel = "trades" /\ raw.data.kind = "list"
    THEN LET ok == SelectSeq(raw.data.items, IsTrade)
         IN  [i \in 1..Len(ok) |->
                 [coin |-> ok[i].coin, ts |-> ok[i].time.v, px |-> ok[i].px.v]]
    ELSE <<>>

\* no frame recorded
NoFrame == [none |-> TRUE]

\* the mark left in place of a batch element that is not folded
Skipped == [skipped |-> TRUE]

IsBatch(raw) ==
    /\ "json" \in DOMAIN raw
    /\ raw.json
    /\ raw.type = "object"
    /\ raw.channel = "trades"
    /\ raw.data.kind = "list"

\* a frame as it is recorded: in a trades batch, each folded record as the
\* trade it carries and every other element as Skipped
Observed(raw) ==
    IF IsBatch(raw)
    THEN [raw EXCEPT !.data.items =
             [k \in 1..Len(raw.data.items) |->
                 LET rec == raw.data.items[k]
                 IN  IF IsTrade(rec)
                     THEN [coin |-> rec.coin, ts |-> rec.time.v, px |-> rec.px.v]
                     ELSE Skipped]]
    ELSE raw

----------------------------------------------------------------------------
(* Operations *)

\* the store after construction: WsCandleStore.__init__
InitStore ==
    /\ histories = <<>>
    /\ heap = [id \in Ids |-> NoObject]
    /\ result = <<>>
    /\ lastCall = [op |-> "none"]
    /\ trace = <<>>
    /\ running = FALSE
    /\ subscribed_coins = <<>>
    /\ tasks = <<>>
    /\ ws_task = 0
    /\ awaited = {}
    /\ fails = <<>>
    /\ lastFrame = NoFrame

\* the store used on its own: main_loop has not been entered
NotEntered == [pc |-> "none"]

Init == InitStore /\ websockets = TRUE /\ main = NotEntered

\* the websockets import may have failed (module level try/except)
InitConn == InitStore /\ websockets \in BOOLEAN /\ main = NotEntered

\* one well-formed trade record folded: _handle_msg lines 139-140
IngestTrade(coin, ts_ms, price) ==
    LET m == add_trade(ensure_history(Memory, coin), coin, ts_ms, price)
    IN  /\ histories' = m.histories
        /\ heap' = Collect(m.heap, m.histories, result)
        /\ trace' = Append(trace, [coin |-> coin, ts |-> ts_ms, px |-> price])
        /\ UNCHANGED <<result, lastCall, lastFrame, main>>
        /\ UNCHANGED loopVars

\* WsCandleStore.get_candles
GetCandles(coin, limit) ==
    LET r == get_candles(Memory, coin, limit)
    IN  /\ result' = r.ret
        /\ lastCall' = [op |-> "get_candles", coin |-> coin, limit |-> limit,
                        at |-> Len(trace), known |-> coin \in DOMAIN histories]
        /\ histories' = r.mem.histories
        /\ heap' = Collect(r.mem.heap, r.mem.histories, r.ret)
        /\ UNCHANGED <<trace, lastFrame, main>>
        /\ UNCHANGED loopVars

\* ws_store.seed_candles(coin, hist) as bot.py calls it: WsCandleStore has
\* no such attribute, so the lookup raises AttributeError before anything
\* runs and the store's memory is untouched
seed_candles(m, coin, hist) == [raised |-> TRUE, mem |-> m]

\* the backfill step of main_loop for one coin: the call, and the except
\* branch that prints the error
SeedCandles(coin, hist) ==
    LET r == seed_candles(Memory, coin, hist)
        n == Len(CandlesOf(coin))
    IN  /\ histories' = r.mem.histories
        /\ heap' = Collect(r.mem.heap, r.mem.histories, result)
        /\ lastCall' = [op |-> "seed_candles", coin |-> coin, candles |-> hist,
                        at |-> Len(trace), raised |-> r.raised,
                        before |-> CandlesOf(coin)]
        /\ UNCHANGED <<result, trace, lastFrame, main>>
        /\ UNCHANGED loopVars

\* task i moves to t; failed says the step took the except branch
UpdateTask(i, t, failed) ==
    /\ tasks' = [tasks EXCEPT ![i] = t]
    /\ fails' = [fails EXCEPT ![i] =
                    IF failed THEN @ + 1
                    ELSE IF t.pc = "streaming" /\ tasks[i].pc # "streaming" THEN 0
                    ELSE IF t.pc \in Terminal THEN 0
                    ELSE @]

\* the WsCandleStore object and the callers suspended in its stop()
Self ==
    [running |-> running, subscribed_coins |-> subscribed_coins, tasks |-> tasks,
     ws_task |-> ws_task, awaited |-> awaited, histories |-> histories]

\* the object after a call
Becomes(self) ==
    /\ running' = self.running
    /\ subscribed_coins' = self.subscribed_coins
    /\ tasks' = self.tasks
    /\ ws_task' = self.ws_task
    /\ awaited' = self.awaited
    /\ histories' = self.histories

\* WsCandleStore.start: the object it leaves and whether it raised; on a
\* running store it prints "Already running" and returns
start(self, coins) ==
    IF self.running
    THEN [raised |-> FALSE, store |-> self]
    ELSE [raised |-> FALSE,
          store |-> [self EXCEPT !.running = TRUE,
                                 !.subscribed_coins = coins,
                                 !.tasks = Append(@, NewTask(coins)),
                                 !.ws_task = Len(self.tasks) + 1]]

\* WsCandleStore.stop up to "await self._ws_task": the flag is cleared and
\* the task cancelled; the await of a task that is already done returns at
\* once (its CancelledError is caught), so the caller is not suspended
stop(self) ==
    LET off == [self EXCEPT !.running = FALSE]
        i   == self.ws_task
    IN  IF i = 0
        THEN [raised |-> FALSE, store |-> off]
        ELSE [raised |-> FALSE,
              store |-> [off EXCEPT !.tasks[i] = cancel(@),
                                    !.awaited = IF self.tasks[i].pc \in Terminal
                                                THEN @ ELSE @ \cup {i}]]

\* a call of start
Start(coins, maxTasks) ==
    LET r == start(Self, coins)
    IN  /\ Len(tasks) < maxTasks
        /\ Becomes(r.store)
        /\ fails' = IF Len(r.store.tasks) > Len(tasks) THEN Append(fails, 0) ELSE fails
        /\ UNCHANGED <<heap, result, lastCall, trace, lastFrame, main, websockets>>

\* a call of stop, up to its await
StopBegin ==
    LET r == stop(Self)
    IN  /\ Becomes(r.store)
        /\ fails' = IF ws_task = 0 THEN fails ELSE [fails EXCEPT ![ws_task] = 0]
        /\ UNCHANGED <<heap, result, lastCall, trace, lastFrame, main, websockets>>

\* the awaited task is done: stop() catches CancelledError and returns
StopEnd(i) ==
    /\ i \in awaited
    /\ tasks[i].pc \in Terminal
    /\ awaited' = awaited \ {i}
    /\ UNCHANGED <<running, subscribed_coins, tasks, ws_task, fails, websockets>>
    /\ UNCHANGED storeVars

\* the event loop runs the new task for the first time
TaskStart(i) ==
    /\ tasks[i].pc = "created"
    /\ UpdateTask(i, first_step(tasks[i], running, websockets), FALSE)
    /\ UNCHANGED <<running, subscribed_coins, ws_task, awaited, websockets>>
    /\ UNCHANGED storeVars

\* websockets.connect succeeded
ConnectOk(i) ==
    /\ tasks[i].pc = "connecting"
    /\ UpdateTask(i, on_connected(tasks[i]), FALSE)
    /\ UNCHANGED <<running, subscribed_coins, ws_task, awaited, websockets>>
    /\ UNCHANGED storeVars

\* websockets.connect raised
ConnectFail(i, maxFailures) ==
    /\ tasks[i].pc = "connecting"
    /\ fails[i] < maxFailures
    /\ UpdateTask(i, on_exception(tasks[i]), TRUE)
    /\ UNCHANGED <<running, subscribed_coins, ws_task, awaited, websockets>>
    /\ UNCHANGED storeVars

\* ws.send of one subscription returned
SendOk(i) ==
    /\ tasks[i].pc = "subscribing"
    /\ UpdateTask(i, on_sent(tasks[i]), FALSE)
    /\ UNCHANGED <<running, subscribed_coins, ws_task, awaited, websockets>>
    /\ UNCHANGED storeVars

\* ws.send raised: the connection is closed and the handler runs
SendFail(i, maxFailures) ==
    /\ tasks[i].pc = "subscribing"
    /\ fails[i] < maxFailures
    /\ UpdateTask(i, on_exception(tasks[i]), TRUE)
    /\ UNCHANGED <<running, subscribed_coins, ws_task, awaited, websockets>>
    /\ UNCHANGED storeVars

\* a frame arrives: json.loads and _handle_msg, whose exception reaches the
\* loop's handler
Recv(i, raw, maxFailures, maxTrades) ==
    LET r == on_frame(Memory, raw)
    IN  /\ tasks[i].pc = "streaming"
        /\ Len(trace) + Len(Folded(raw)) <= maxTrades
        /\ r.raised => fails[i] < maxFailures
        /\ UpdateTask(i, IF r.raised THEN on_exception(tasks[i]) ELSE tasks[i], r.raised)
        /\ histories' = r.mem.histories
        /\ heap' = Collect(r.mem.heap, r.mem.histories, result)
        /\ trace' = trace \o Folded(raw)
        /\ UNCHANGED <<result, lastCall, main>>
        /\ UNCHANGED <<running, subscribed_coins, ws_task, awaited, websockets>>

RecvFrame(i, raw, maxFailures, maxTrades) ==
    Recv(i, raw, maxFailures, maxTrades) /\ UNCHANGED lastFrame

\* the same step, the frame recorded
RecvFrameObserved(i, raw, maxFailures, maxTrades) ==
    Recv(i, raw, maxFailures, maxTrades) /\ lastFrame' = Observed(raw)

\* the receive loop raised: the connection broke
StreamError(i, maxFailures) ==
    /\ tasks[i].pc = "streaming"
    /\ fails[i] < maxFailures
    /\ UpdateTask(i, on_exception(tasks[i]), TRUE)
    /\ UNCHANGED <<running, subscribed_coins, ws_task, awaited, websockets>>
    /\ UNCHANGED storeVars

\* the server closed the stream normally: "async for" ends, no exception,
\* and the loop is back at "while self._running"
StreamClosed(i) ==
    /\ tasks[i].pc = "streaming"
    /\ UpdateTask(i, loop_top(tasks[i], running), FALSE)
    /\ UNCHANGED <<running, subscribed_coins, ws_task, awaited, websockets>>
    /\ UNCHANGED storeVars

\* asyncio.sleep(backoff) returned
SleepDone(i) ==
    /\ tasks[i].pc = "sleeping"
    /\ UpdateTask(i, loop_top(tasks[i], running), FALSE)
    /\ UNCHANGED <<running, subscribed_coins, ws_task, awaited, websockets>>
    /\ UNCHANGED storeVars

\* a cancelled task runs: CancelledError unwinds it (closing its connection)
Unwind(i) ==
    /\ tasks[i].pc \in Cancelling
    /\ UpdateTask(i, Ended(tasks[i], "cancelled"), FALSE)
    /\ UNCHANGED <<running, subscribed_coins, ws_task, awaited, websockets>>
    /\ UNCHANGED storeVars

----------------------------------------------------------------------------
(* SpecFold: one symbol's history under trades delivered in any order *)

NextFold ==
    \/ \E tr \in Trades :
          /\ Len(trace) < MaxTrades
          /\ IngestTrade("BTC", tr.ts, tr.px)
    \/ \E limit \in Limits : GetCandles("BTC", limit)

SpecFold == Init /\ [][NextFold]_vars

----------------------------------------------------------------------------
(* SpecSeed: one symbol's history under trades and backfill calls *)

\* a historical candle of bucket b, as the HTTP backfill returns it
Historical(b) == Candle(b * BucketMs, 90, 110, 80, 100)

\* sorted lists of historical candles, oldest first
SeedLists ==
    {<<>>}
        \cup {<<Historical(b)>> : b \in 0..MaxBucket}
        \cup UNION {{<<Historical(a), Historical(b)>> : b \in (a + 1)..MaxBucket} :
                        a \in 0..MaxBucket}

NextSeed ==
    \/ \E tr \in Trades :
          /\ Len(trace) < MaxStoreTrades
          /\ IngestTrade("BTC", tr.ts, tr.px)
    \/ \E hist \in SeedLists : SeedCandles("BTC", hist)

SpecSeed == Init /\ [][NextSeed]_vars

----------------------------------------------------------------------------
(* Spec: a store started once, fed frames of every shape, read by callers *)

\* the coin lists the store is started with: ETH may be left unsubscribed
StoreCoinLists == {<<"BTC">>, <<"BTC", "ETH">>}

StoreLimits == {1, MaxCandles + 10}

StoreTicks == {<<0, 100>>, <<BucketMs + 1, 105>>}

GoodRecords == {Record(c, Num(k[2]), Num(k[1])) : c \in Coins, k \in StoreTicks}

BadRecords ==
    {NotMapping,
     Record("", Num(100), Num(0)),
     Record("BTC", Missing, Num(0)),
     Record("BTC", Num(100), Missing),
     Record("BTC", Unparsable, Num(0)),
     Record("BTC", Num(100), Unparsable)}

Batches ==
    UNION {[1..n -> GoodRecords \cup BadRecords] : n \in 0..MaxBatch}

Frames ==
    {BadJson, NotObject}
        \cup {Message("subscriptionResponse", d) : d \in {DataObject, DataMissing, DataNull}}
        \cup {Message("other", DataNull)}
        \cup {Message("trades", d) : d \in {DataObject, DataNull, DataScalar}}
        \cup {Message("trades", DataList(b)) : b \in Batches}

Next ==
    \/ \E coins \in StoreCoinLists : Start(coins, 1)
    \/ StopBegin
    \/ \E i \in 1..Len(tasks) : StopEnd(i)
    \/ \E i \in 1..Len(tasks) : TaskStart(i)
    \/ \E i \in 1..Len(tasks) : ConnectOk(i)
    \/ \E i \in 1..Len(tasks) : SendOk(i)
    \/ \E i \in 1..Len(tasks), raw \in Frames :
          RecvFrame(i, raw, MaxStoreFailures, MaxStoreTrades)
    \/ \E i \in 1..Len(tasks) : SleepDone(i)
    \/ \E i \in 1..Len(tasks) : Unwind(i)
    \/ \E coin \in Coins, limit \in StoreLimits : GetCandles(coin, limit)

Spec == Init /\ [][Next]_vars

----------------------------------------------------------------------------
(* SpecConn: the life cycle and the reconnect loop, several tasks; the only *)
(* trade received is one tick of one coin                                   *)

ControlFrames ==
    {BadJson,
     NotObject,
     Message("subscriptionResponse", DataObject),
     Message("other", DataNull),
     Message("trades", DataList(<<>>))}

\* the frames of SpecConn: the control frames and one single-trade batch
ConnFrames ==
    ControlFrames \cup {Message("trades", DataList(<<Record("BTC", Num(100), Num(0))>>))}

NextConn ==
    \/ \E coins \in CoinLists : Start(coins, MaxTasks)
    \/ StopBegin
    \/ \E i \in 1..Len(tasks) : StopEnd(i)
    \/ \E i \in 1..Len(tasks) : TaskStart(i)
    \/ \E i \in 1..Len(tasks) : ConnectOk(i)
    \/ \E i \in 1..Len(tasks) : ConnectFail(i, MaxFailures)
    \/ \E i \in 1..Len(tasks) : SendOk(i)
    \/ \E i \in 1..Len(tasks) : SendFail(i, MaxFailures)
    \/ \E i \in 1..Len(tasks), raw \in ConnFrames :
          RecvFrame(i, raw, MaxFailures, MaxStoreTrades)
    \/ \E i \in 1..Len(tasks) : StreamError(i, MaxFailures)
    \/ \E i \in 1..Len(tasks) : StreamClosed(i)
    \/ \E i \in 1..Len(tasks) : SleepDone(i)
    \/ \E i \in 1..Len(tasks) : Unwind(i)

SpecConn == InitConn /\ [][NextConn]_vars

\* asyncio.sleep(backoff) returns once the delay has passed: the timer of a
\* sleeping task fires
SleepStep(i) == i \in 1..Len(tasks) /\ SleepDone(i)

SpecConnFair == SpecConn /\ \A i \in 1..MaxTasks : WF_vars(SleepStep(i))

----------------------------------------------------------------------------
(* SpecFrames: one connection fed frames of every shape, each recorded *)

\* two ticks whose order shows in the candles; the batches are those of up
\* to MaxBatch records, and each bad record between two good ones
FrameGood ==
    {Record("BTC", Num(100), Num(0)), Record("BTC", Num(105), Num(BucketMs + 1))}

FrameBatches ==
    UNION {[1..n -> FrameGood \cup BadRecords] : n \in 0..MaxBatch}
        \cup {<<g1, bad, g2>> : g1 \in FrameGood, bad \in BadRecords, g2 \in FrameGood}

FrameSet ==
    {BadJson, NotObject}
        \cup {Message("subscriptionResponse", d) :
                    d \in {DataObject, DataMissing, DataNull, DataScalar}}
        \cup {Message("other", DataNull)}
        \cup {Message("trades", d) : d \in {DataObject, DataNull, DataScalar}}
        \cup {Message("trades", DataList(b)) : b \in FrameBatches}

NextFrames ==
    \/ Start(<<"BTC">>, 1)
    \/ \E i \in 1..Len(tasks) : TaskStart(i)
    \/ \E i \in 1..Len(tasks) : ConnectOk(i)
    \/ \E i \in 1..Len(tasks) : SendOk(i)
    \/ \E i \in 1..Len(tasks), raw \in FrameSet :
          RecvFrameObserved(i, raw, MaxStoreFailures, MaxStoreTrades)
    \/ \E i \in 1..Len(tasks) : SleepDone(i)

SpecFrames == Init /\ [][NextFrames]_vars

----------------------------------------------------------------------------
(* main_loop of bot.py: the startup backfill, the start of the store and *)
(* the trading iterations                                                *)

\* fetch_candles raised
FetchFailed == [failed |-> TRUE]

\* fetch_candles returned the list hist
Fetched(hist) == [failed |-> FALSE, candles |-> hist]

\* main_loop about to enter 'for coin in coins' of the backfill
AtBackfill(coins) ==
    [pc |-> IF coins = <<>> THEN "start" ELSE "backfill",
     coins |-> coins, next |-> 1, fetched |-> <<>>]

\* one pass of the backfill loop for coins[next]: fetch_candles, then
\* seed_candles on its result; 'except Exception' prints and goes on
backfill_step(mn, m, fetch) ==
    LET coin == mn.coins[mn.next]
        r    == IF fetch.failed THEN [raised |-> TRUE, mem |-> m]
                ELSE seed_candles(m, coin, fetch.candles)
    IN  [main |-> [mn EXCEPT !.next = @ + 1,
                             !.fetched = Append(@, fetch),
                             !.pc = IF mn.next = Len(mn.coins) THEN "start"
                                    ELSE "backfill"],
         mem |-> r.mem]

Backfill(fetch) ==
    /\ main.pc = "backfill"
    /\ LET r == backfill_step(main, Memory, fetch)
       IN  /\ main' = r.main
           /\ histories' = r.mem.histories
           /\ heap' = Collect(r.mem.heap, r.mem.histories, result)
    /\ UNCHANGED <<result, lastCall, trace, lastFrame>>
    /\ UNCHANGED loopVars

\* await ws_store.start(coins=coins), then the wait before 'while True'
BootStart ==
    /\ main.pc = "start"
    /\ LET r == start(Self, main.coins)
       IN  /\ Becomes(r.store)
           /\ fails' = IF Len(r.store.tasks) > Len(tasks) THEN Append(fails, 0) ELSE fails
    /\ main' = [pc |-> "loop"]
    /\ UNCHANGED <<heap, result, lastCall, trace, lastFrame, websockets>>

\* a Signal as the sizing reads it
Signal(entry_price, stop_loss) == [entry_price |-> entry_price, stop_loss |-> stop_loss]

None == [none |-> TRUE]

Abs(x) == IF x < 0 THEN 0 - x ELSE x

\* risk.position_sizing.compute_position_size; the size is the fraction
\* risk_amount / risk_per_unit with risk_amount = equity / RiskPctDen
compute_position_size(entry_price, stop_loss, equity, open_positions_count, max_positions) ==
    IF open_positions_count >= max_positions THEN None
    ELSE IF entry_price <= 0 THEN None
    ELSE IF equity <= 0 THEN None                   \* risk_amount <= 0
    ELSE IF Abs(entry_price - stop_loss) <= 0 THEN None
    ELSE [direction |-> IF entry_price > stop_loss THEN "long" ELSE "short",
          size |-> [num |-> equity, den |-> RiskPctDen * Abs(entry_price - stop_loss)]]

\* the top of 'while True' down to the signals: the equity and the open
\* positions are fetched once, then the signals are generated
IterationTop(equity, open_positions_count, signals) ==
    /\ main.pc = "loop"
    /\ main' = [pc |-> IF signals = <<>> THEN "sleep" ELSE "signals",
                equity |-> equity,
                open_positions_count |-> open_positions_count,
                signals |-> signals,
                orders |-> 0]
    /\ UNCHANGED <<histories, heap, result, lastCall, trace, lastFrame>>
    /\ UNCHANGED loopVars

\* the body of 'for coin, sig in signals.items()' for the next signal
signal_step(mn, blocked, accepted) ==
    LET sig      == Head(mn.signals)
        pos_size == compute_position_size(sig.entry_price, sig.stop_loss, mn.equity,
                                          mn.open_positions_count, MaxPositions)
        rest     == [mn EXCEPT !.signals = Tail(@),
                               !.pc = IF Tail(mn.signals) = <<>> THEN "sleep" ELSE "signals"]
    IN  IF blocked THEN rest                                  \* news filter
        ELSE IF pos_size = None THEN rest                     \* size invalid
        ELSE IF pos_size.size.num <= 0 THEN rest
        ELSE IF accepted THEN [rest EXCEPT !.orders = @ + 1]  \* place_order
        ELSE rest                                             \* ORDER_ERROR

SignalStep(blocked, accepted) ==
    /\ main.pc = "signals"
    /\ main' = signal_step(main, blocked, accepted)
    /\ UNCHANGED <<histories, heap, result, lastCall, trace, lastFrame>>
    /\ UNCHANGED loopVars

\* await asyncio.sleep(sleep_s) at the end of the iteration
IterationSleep ==
    /\ main.pc = "sleep"
    /\ main' = [pc |-> "loop"]
    /\ UNCHANGED <<histories, heap, result, lastCall, trace, lastFrame>>
    /\ UNCHANGED loopVars

\* what fetch_candles does for one coin
Fetches == {FetchFailed} \cup {Fetched(hist) : hist \in SeedLists}

Equities == {0, 96}

SignalKinds == {Signal(100, 95), Signal(100, 100), Signal(0, 95)}

SignalLists == UNION {[1..n -> SignalKinds] : n \in 0..MaxSignals}

InitMain ==
    /\ InitStore
    /\ websockets = TRUE
    /\ main \in {AtBackfill(coins) : coins \in StoreCoinLists}

NextMain ==
    \/ \E fetch \in Fetches : Backfill(fetch)
    \/ BootStart
    \/ \E i \in 1..Len(tasks) : TaskStart(i)
    \/ \E i \in 1..Len(tasks) : ConnectOk(i)
    \/ \E i \in 1..Len(tasks) : SendOk(i)
    \/ \E equity \in Equities, n \in 0..MaxPositions, signals \in SignalLists :
          IterationTop(equity, n, signals)
    \/ \E blocked \in BOOLEAN, accepted \in BOOLEAN : SignalStep(blocked, accepted)
    \/ IterationSleep

SpecMain == InitMain /\ [][NextMain]_vars

----------------------------------------------------------------------------
(* SpecRead: readers of two symbols interleaved with the ingestion of *)
(* batches that mix the symbols and carry malformed records           *)

ReadGood ==
    {Record("BTC", Num(100), Num(0)),
     Record("BTC", Num(95), Num(1)),
     Record("BTC", Num(105), Num(BucketMs + 1)),
     Record("ETH", Num(100), Num(0))}

\* a batch element that is no mapping, and a record that names a coin but
\* whose price does not parse
ReadBad == {NotMapping, Record("ETH", Unparsable, Num(0))}

ReadBatches == UNION {[1..n -> ReadGood \cup ReadBad] : n \in 0..MaxBatch}

ReadFrames ==
    {Message("subscriptionResponse", DataObject)}
        \cup {Message("trades", DataList(b)) : b \in ReadBatches}

NextRead ==
    \/ \E coins \in StoreCoinLists : Start(coins, 1)
    \/ \E i \in 1..Len(tasks) : TaskStart(i)
    \/ \E i \in 1..Len(tasks) : ConnectOk(i)
    \/ \E i \in 1..Len(tasks) : SendOk(i)
    \/ \E i \in 1..Len(tasks), raw \in ReadFrames :
          RecvFrame(i, raw, MaxStoreFailures, MaxStoreTrades)
    \/ \E coin \in Coins, limit \in StoreLimits : GetCandles(coin, limit)

SpecRead == Init /\ [][NextRead]_vars

----------------------------------------------------------------------------
(* What the store holds and what a reader holds, as values *)

\* the returned list as its holder reads it now
ResultView == [i \in 1..Len(result) |-> Deref(heap, result[i])]

\* the trades of one coin, in delivery order
TradesOf(coin) == SelectSeq(trace, LAMBDA e : e.coin = coin)

BucketOf(ts) == ts - (ts % BucketMs)

NonDecreasingTs(tr) == \A i \in 1..(Len(tr) - 1) : tr[i].ts <= tr[i + 1].ts

IncreasingBuckets(tr) ==
    \A i \in 1..(Len(tr) - 1) : BucketOf(tr[i].ts) < BucketOf(tr[i + 1].ts)

StrictlyIncreasingT(cs) == \A i \in 1..(Len(cs) - 1) : cs[i].t < cs[i + 1].t

WellFormed(c) == c.l <= c.o /\ c.o <= c.h /\ c.l <= c.c /\ c.c <= c.h

\* the last get_candles call returned in the current state
Fresh == lastCall.op = "get_candles" /\ lastCall.at = Len(trace)

----------------------------------------------------------------------------
(* Claims *)

\* C1: for every symbol whose trades arrived with non-decreasing timestamps,
\* the stored candles have strictly increasing bucket starts t and every
\* stored candle has l <= o <= h and l <= c <= h.
C1_OrderedTradesOrderedCandles ==
    \A coin \in Coins :
        NonDecreasingTs(TradesOf(coin)) =>
            /\ StrictlyIncreasingT(CandlesOf(coin))
            /\ \A i \in 1..Len(CandlesOf(coin)) : WellFormed(CandlesOf(coin)[i])

C1_Witness ==
    /\ Len(trace) = 3
    /\ NonDecreasingTs(TradesOf("BTC"))
    /\ Len(CandlesOf("BTC")) = 2
    /\ CandlesOf("BTC")[1].l < CandlesOf("BTC")[1].h

\* C2: add_trade(ts_ms, price) is the reference fold: with b the bucket of
\* ts_ms, an empty history or a last candle whose t differs from b gets a new
\* last candle t=b, o=h=l=c=price; otherwise only the last candle changes, to
\* h=max(h,price), l=min(l,price), c=price, its o and t kept. Folding
\* (0,100),(1,105),(2,95) yields the one candle o=100,h=105,l=95,c=95.
C2_FoldStep ==
    trace' # trace =>
        \A coin \in Coins :
            LET tr  == trace'[Len(trace')]
                b   == BucketOf(tr.ts)
                old == CandlesOf(coin)
                new == CandlesOf(coin)'
                k   == Len(old)
            IN  IF tr.coin # coin
                THEN new = old
                ELSE IF k = 0 \/ old[k].t # b
                THEN /\ Len(new) >= 1
                     /\ new[Len(new)] = Candle(b, tr.px, tr.px, tr.px, tr.px)
                     /\ \/ SubSeq(new, 1, Len(new) - 1) = old
                        \/ SubSeq(new, 1, Len(new) - 1) = Tail(old)
                ELSE /\ Len(new) = k
                     /\ SubSeq(new, 1, k - 1) = SubSeq(old, 1, k - 1)
                     /\ new[k] = Candle(old[k].t, old[k].o, Max(old[k].h, tr.px),
                                        Min(old[k].l, tr.px), tr.px)

C2_Example ==
    trace = <<[coin |-> "BTC", ts |-> 0, px |-> 100],
              [coin |-> "BTC", ts |-> 1, px |-> 105],
              [coin |-> "BTC", ts |-> 2, px |-> 95]>>
        => CandlesOf("BTC") = <<Candle(0, 100, 105, 95, 95)>>

C2_ReferenceFold == [][C2_FoldStep]_vars /\ []C2_Example

C2_Witness ==
    /\ trace = <<[coin |-> "BTC", ts |-> 0, px |-> 100],
                 [coin |-> "BTC", ts |-> 1, px |-> 105],
                 [coin |-> "BTC", ts |-> 2, px |-> 95]>>
    /\ Len(CandlesOf("BTC")) = 1

\* C3: a late trade is dropped: when a trade's bucket start is strictly older
\* than the t of the last candle of its symbol's non-empty history, folding it
\* leaves that symbol's candle sequence unchanged.
C3_LateTradeStep ==
    trace' # trace =>
        \A coin \in Coins :
            LET tr  == trace'[Len(trace')]
                old == CandlesOf(coin)
            IN  (tr.coin = coin /\ Len(old) > 0 /\ BucketOf(tr.ts) < old[Len(old)].t)
                    => CandlesOf(coin)' = old

C3_LateTradeDropped == [][C3_LateTradeStep]_vars

\* C4: whatever the order of the trades ingested for a symbol, its candle
\* sequence is strictly increasing in t (so no bucket start occurs twice).
C4_AlwaysStrictlyIncreasing ==
    \A coin \in Coins : StrictlyIncreasingT(CandlesOf(coin))

\* C5: a candle that is no longer the last of its history keeps all its
\* fields under every later trade; it can only leave the history, and then it
\* is the oldest candle that an append to a full history evicts.
C5_SupersededStep ==
    \A coin \in DOMAIN histories :
        LET old == histories[coin].candles
            new == histories'[coin].candles
        IN  \A i \in 1..(Len(old) - 1) :
                \/ /\ \E j \in 1..Len(new) : new[j] = old[i]
                   /\ heap'[old[i]] = heap[old[i]]
                \/ /\ i = 1
                   /\ Len(old) = MaxCandles
                   /\ SubSeq(new, 1, Len(new) - 1) = Tail(old)

C5_SupersededImmutable == [][C5_SupersededStep]_vars

C5_Witness ==
    /\ Len(trace) >= 3
    /\ BucketOf(trace[3].ts) < BucketOf(trace[2].ts)
    /\ BucketOf(trace[1].ts) < BucketOf(trace[2].ts)
    /\ Len(CandlesOf("BTC")) = 2

\* C6: a history never holds more than max_candles candles, and after more
\* than max_candles trades in distinct increasing buckets
\* get_candles(symbol, max_candles + 10) returns exactly the candles of the
\* max_candles most recent trades, oldest first.
C6_Retention ==
    /\ \A coin \in DOMAIN histories : Len(histories[coin].candles) <= MaxCandles
    /\ ( /\ Fresh
         /\ lastCall.limit = MaxCandles + 10
         /\ Len(TradesOf(lastCall.coin)) > MaxCandles
         /\ IncreasingBuckets(TradesOf(lastCall.coin)) )
       => LET tr == TradesOf(lastCall.coin)
              n  == Len(tr)
          IN  result = [i \in 1..MaxCandles |->
                          LET e == tr[n - MaxCandles + i]
                          IN  Candle(BucketOf(e.ts), e.px, e.px, e.px, e.px)]

C6_Witness ==
    /\ Fresh
    /\ lastCall.limit = MaxCandles + 10
    /\ Len(TradesOf(lastCall.coin)) > MaxCandles
    /\ IncreasingBuckets(TradesOf(lastCall.coin))
    /\ Len(result) = MaxCandles

\* C7: for a history of k candles and a requested count n >= 0, n = 0
\* included, get_candles(symbol, n) returns exactly min(n, k) candles, the
\* final min(n, k) candles of the history, oldest first.
C7_ReturnsFinalMin ==
    (Fresh /\ lastCall.limit >= 0) =>
        LET cs == CandlesOf(lastCall.coin)
            k  == Len(cs)
            r  == Min(lastCall.limit, k)
        IN  /\ Len(result) = r
            /\ \A i \in 1..r : ResultView[i] = cs[k - r + i]

\* C8: a list get_candles returned is a snapshot: trades ingested after the
\* call, also ones that update the then-last candle or evict candles, leave
\* the returned sequence and every candle value in it as they were.
C8_SnapshotStep == trace' # trace => ResultView' = ResultView

C8_ResultIsSnapshot == [][C8_SnapshotStep]_vars

\* the then-last candle was updated in place after the call returned
C8_Witness ==
    /\ lastCall.op = "get_candles"
    /\ lastCall.at < Len(trace)
    /\ Len(result) = 2
    /\ Len(CandlesOf(lastCall.coin)) = 2
    /\ result[1] = CandlesOf(lastCall.coin)[1]
    /\ result[2].t = CandlesOf(lastCall.coin)[2].t
    /\ result[2].l > CandlesOf(lastCall.coin)[2].l

\* C9: get_candles for a symbol that has no history returns an empty
\* sequence, whatever the state of the store (never started, running,
\* stopped), and creates no mapping entry for that symbol.
C9_UnknownSymbolEmpty ==
    (Fresh /\ ~lastCall.known) =>
        /\ result = <<>>
        /\ lastCall.coin \notin DOMAIN histories

C9_Witness ==
    /\ Fresh
    /\ ~lastCall.known
    /\ running
    /\ \E i \in 1..Len(tasks) : tasks[i].pc = "streaming"
    /\ DOMAIN histories # {}
    /\ result = <<>>

\* C10: the delay slept after the k-th consecutive failure is min(5*k, 60):
\* it never exceeds 60 and does not decrease from one consecutive failure to
\* the next; reaching streaming (handshake done, all subscriptions sent)
\* resets the count, so the next failure sleeps 5; a failure before streaming
\* is reached does not reset it.
C10_Delay ==
    \A i \in 1..Len(tasks) :
        tasks[i].pc = "sleeping" =>
            /\ fails[i] >= 1
            /\ tasks[i].backoff = (IF 5 * fails[i] <= 60 THEN 5 * fails[i] ELSE 60)
            /\ tasks[i].backoff <= 60

C10_FailureStep ==
    \A i \in 1..Len(tasks) :
        (fails'[i] = fails[i] + 1) =>
            /\ tasks'[i].pc = "sleeping"
            /\ fails[i] >= 1 => tasks'[i].backoff >= tasks[i].backoff
            /\ fails[i] = 0 => tasks'[i].backoff = 5

C11_AttemptStep ==
    \A i \in 1..Len(tasks) :
        (tasks'[i].pc = "connecting" /\ tasks[i].pc # "connecting")
            => tasks[i].pc \in {"created", "sleeping"}

C11_NoBusyLoop == [][C11_AttemptStep]_vars

\* C12: stop() is terminal and joining: from any position of the loop
\* (connecting, subscribing, streaming, sleeping), when stop() returns the
\* task it cancelled has terminated, and while the store stays stopped (no
\* start() since) no task makes a connection attempt, sends a subscription
\* or ingests a trade.
C12_Stopped ==
    ~running => \A i \in 1..Len(tasks) : tasks[i].pc \in Terminal \cup Cancelling

C12_JoinStep ==
    \A i \in awaited : i \notin awaited' => tasks'[i].pc \in Terminal

C12_QuietStep ==
    /\ \A i \in 1..Len(tasks) :
          tasks[i].pc \in Terminal \cup Cancelling
              => tasks'[i].pc \in Terminal \cup Cancelling
    /\ ~running => (trace' = trace /\ histories' = histories)

C12_StopTerminal == []C12_Stopped /\ [][C12_JoinStep /\ C12_QuietStep]_vars

\* stop() has returned on a store that was streaming and had ingested a trade
C12_Witness ==
    /\ ~running
    /\ awaited = {}
    /\ ws_task # 0
    /\ tasks[ws_task].pc = "cancelled"
    /\ Len(trace) >= 1

\* C13: no duplicate connections: under every interleaving of start() and
\* stop() calls of concurrent callers (start() while another caller's stop()
\* still awaits the old task included) at most one background loop is live
\* and at most one transport connection is open.
C13_SingleLoop ==
    /\ Cardinality({i \in 1..Len(tasks) : tasks[i].pc \notin Terminal}) <= 1
    /\ Cardinality({i \in 1..Len(tasks) : HasConnection(tasks[i])}) <= 1

\* C14: start() on a running store fails with an error reported to the
\* caller and leaves the running flag, the recorded symbols and the existing
\* task unchanged (no second task).
C14_StartWhileRunning ==
    running =>
        \A coins \in CoinLists :
            /\ start(Self, coins).raised
            /\ start(Self, coins).store = Self

\* every stop() has returned and no start() followed
Stopped == ~running /\ awaited = {}

\* C15: stop() is idempotent: on a store that is already stopped, or was
\* never started, stop() completes at once without error and leaves the
\* store as it was: running false, no task live, the histories unchanged.
C15_StopIdempotent ==
    Stopped =>
        /\ ~stop(Self).raised
        /\ stop(Self).store = Self
        /\ \A i \in 1..Len(tasks) : tasks[i].pc \in Terminal

\* a stopped store that holds a task and a candle, where a stop changes nothing
C15_Witness ==
    /\ Stopped
    /\ ws_task # 0
    /\ tasks[ws_task].pc = "cancelled"
    /\ DOMAIN histories # {}
    /\ stop(Self).store = Self

\* the fold of one trade into a sequence of candle values (the reference
\* fold of C2, with the retention of C6)
FoldValue(cs, tr) ==
    LET b == BucketOf(tr.ts)
        n == Len(cs)
    IN  IF n = 0 \/ cs[n].t # b
        THEN LET c == Candle(b, tr.px, tr.px, tr.px, tr.px)
             IN  IF n >= MaxCandles THEN Append(Tail(cs), c) ELSE Append(cs, c)
        ELSE [cs EXCEPT ![n] = Candle(cs[n].t, cs[n].o, Max(cs[n].h, tr.px),
                                      Min(cs[n].l, tr.px), tr.px)]

RECURSIVE FoldValues(_, _)
FoldValues(cs, trs) ==
    IF trs = <<>> THEN cs ELSE FoldValues(FoldValue(cs, Head(trs)), Tail(trs))

IsSkipped(x) == "skipped" \in DOMAIN x

\* a frame was received in this step
Received == lastFrame' # lastFrame \/ trace' # trace

\* C16: in a trades batch with malformed records (not a mapping, empty or
\* missing coin, missing px or time, unparsable px or time) each malformed
\* record is skipped without changing any history, every well-formed record
\* of the batch, before and after a bad one, is folded in batch order, and
\* the connection stays in streaming: no reconnect, no counter increment.
C16_BatchStep ==
    (Received /\ IsBatch(lastFrame')) =>
        LET good == SelectSeq(lastFrame'.data.items, LAMBDA x : ~IsSkipped(x))
        IN  /\ \A coin \in Coins :
                  CandlesOf(coin)' =
                      FoldValues(CandlesOf(coin), SelectSeq(good, LAMBDA e : e.coin = coin))
            /\ DOMAIN histories' = DOMAIN histories \cup {good[k].coin : k \in 1..Len(good)}
            /\ tasks' = tasks
            /\ fails' = fails

C16_BadRecordsSkipped == [][C16_BatchStep]_vars

\* a batch with a malformed record between two trades was folded
C16_Witness ==
    /\ IsBatch(lastFrame)
    /\ Len(lastFrame.data.items) = 3
    /\ ~IsSkipped(lastFrame.data.items[1])
    /\ IsSkipped(lastFrame.data.items[2])
    /\ ~IsSkipped(lastFrame.data.items[3])
    /\ trace = <<lastFrame.data.items[1], lastFrame.data.items[3]>>
    /\ CandlesOf("BTC") = <<Candle(0, 100, 100, 100, 100),
                            Candle(BucketMs, 105, 105, 105, 105)>>
    /\ \E i \in 1..Len(tasks) : tasks[i].pc = "streaming" /\ fails[i] = 0

\* a frame that is not valid JSON, or is JSON of an unexpected shape
Malformed(raw) ==
    /\ "json" \in DOMAIN raw
    /\ \/ ~raw.json
       \/ raw.type # "object"
       \/ raw.channel \notin {"trades", "subscriptionResponse"}
       \/ raw.channel = "trades" /\ raw.data.kind # "list"

\* C17: a malformed frame (not valid JSON, or valid JSON that is not an
\* object, has an unknown channel, or whose data is not a list) is dropped:
\* candle state is unchanged, the connection is not torn down, and the loop
\* keeps streaming.
C17_MalformedStep ==
    (Received /\ Malformed(lastFrame')) =>
        /\ histories' = histories
        /\ heap' = heap
        /\ tasks' = tasks
        /\ fails' = fails

C17_MalformedFrameDropped == [][C17_MalformedStep]_vars

\* C18: transport failures are never fatal: while the store is running and
\* stop() has not been called, every connect failure or mid-stream
\* disconnect is followed, eventually, by a new connection attempt, for any
\* number of consecutive failures, and no such failure reaches a caller of
\* get_candles.
Live == {"connecting", "subscribing", "streaming", "sleeping"}

Stopping == Cancelling \cup {"cancelled"}

\* no step of a task that stop() has not cancelled ends its loop
C18_FailureStep ==
    \A i \in 1..Len(tasks) :
        tasks[i].pc \in Live => tasks'[i].pc \in Live \cup Stopping

\* a task that failed and sleeps gets to its next connection attempt, unless
\* stop() cancels it
C18_Retried ==
    \A i \in 1..MaxTasks :
        (i <= Len(tasks) /\ tasks[i].pc = "sleeping")
            ~> (i <= Len(tasks) /\ tasks[i].pc \in {"connecting"} \cup Stopping)

\* while a task is down, a read returns the stored candles
C18_ReadersUnaffected ==
    (\E i \in 1..Len(tasks) : tasks[i].pc = "sleeping") =>
        \A coin \in Coins, limit \in {MaxCandles + 10} :
            get_candles(Memory, coin, limit).ret = CandlesOf(coin)

C18_TransportNeverFatal ==
    C18_Retried /\ [][C18_FailureStep]_vars /\ []C18_ReadersUnaffected

\* the attempt that follows the last of MaxFailures consecutive failures
C18_Witness ==
    \E i \in 1..Len(tasks) :
        /\ tasks[i].pc = "connecting"
        /\ fails[i] = MaxFailures
        /\ tasks[i].reconnect_count = MaxFailures
        /\ running

\* C19: on every successful handshake, the first and each reconnect alike,
\* the loop sends exactly one subscribe request for each symbol passed to
\* start(), in order, and all of them before any frame of that connection
\* is processed.
C19_Coins ==
    ws_task # 0 => tasks[ws_task].coins = subscribed_coins

C19_SubscribeStep ==
    \A i \in 1..Len(tasks) :
        LET t == tasks[i]
            u == tasks'[i]
        IN  /\ u.coins = t.coins
            \* the handshake is followed by the send for the first symbol
            /\ (t.pc = "connecting" /\ u.pc \in {"subscribing", "streaming"})
                  => IF t.coins = <<>> THEN u.pc = "streaming"
                     ELSE u.pc = "subscribing" /\ u.next = 1
            \* each send that returns is followed by the send for the next symbol
            /\ (t.pc = "subscribing" /\ u.pc = "subscribing" /\ u # t)
                  => u.next = t.next + 1 /\ u.next <= Len(t.coins)
            \* the loop listens only when the send for the last symbol has returned
            /\ (t.pc # "streaming" /\ u.pc = "streaming")
                  => \/ t.pc = "connecting" /\ t.coins = <<>>
                     \/ t.pc = "subscribing" /\ t.next = Len(t.coins)
            /\ u.pc = "subscribing" => t.pc \in {"connecting", "subscribing"}

\* a frame is processed only by a task that is listening
C19_FrameStep ==
    trace' # trace => \E i \in 1..Len(tasks) : tasks[i].pc = "streaming"

C19_SubscribesEachSymbol ==
    []C19_Coins /\ [][C19_SubscribeStep /\ C19_FrameStep]_vars

\* on a reconnect, the first of two subscriptions sent and the second in flight
C19_Witness ==
    \E i \in 1..Len(tasks) :
        /\ tasks[i].pc = "subscribing"
        /\ tasks[i].coins = <<"BTC", "ETH">>
        /\ tasks[i].next = 2
        /\ tasks[i].reconnect_count >= 1

\* C20: the store offers a seed operation: for a symbol with a live tail
\* candle, seeding a sorted list of historical candles inserts every candle
\* whose bucket start is strictly older than the tail's ahead of the tail,
\* rejects each candle at or after the tail's bucket (that candle only), and
\* leaves the tail unchanged.
C20_SeedMergesOlder ==
    ( /\ lastCall.op = "seed_candles"
      /\ lastCall.at = Len(trace)
      /\ lastCall.candles # <<>>
      /\ lastCall.before # <<>> ) =>
        LET cs    == CandlesOf(lastCall.coin)
            tail  == lastCall.before[Len(lastCall.before)]
            older == SelectSeq(lastCall.candles, LAMBDA c : c.t < tail.t)
            late  == SelectSeq(lastCall.candles, LAMBDA c : c.t >= tail.t)
        IN  /\ ~lastCall.raised
            /\ cs # <<>>
            /\ cs[Len(cs)] = tail
            /\ \A k \in 1..Len(older) :
                   \E j \in 1..(Len(cs) - 1) : cs[j].t = older[k].t
            /\ \A k \in 1..Len(late) :
                   \A j \in 1..(Len(cs) - 1) : cs[j] # late[k]

\* start() has never been called on the store
NeverStarted == ws_task = 0 /\ ~running

\* C21: a query (get_candles, get_candles_async) on a store that has never
\* been started is reported to the caller as an explicit error instead of
\* returning a result.
C21_QueryBeforeStartRaises ==
    NeverStarted =>
        \A coin \in Coins, limit \in StoreLimits :
            /\ get_candles(Memory, coin, limit).raised
            /\ get_candles_async(TRUE, Memory, coin, "15m", limit).raised

\* C22: every symbol in the symbol-to-history mapping has a non-empty candle
\* sequence: an entry is created only when a trade of that symbol is folded,
\* never by a query, a skipped or malformed record, or start().
C22_NonEmpty ==
    \A coin \in DOMAIN histories : Len(histories[coin].candles) >= 1

C22_CreationStep ==
    \A coin \in Coins :
        (coin \in DOMAIN histories' /\ coin \notin DOMAIN histories)
            => \E k \in (Len(trace) + 1)..Len(trace') : trace'[k].coin = coin

C22_EntriesHoldCandles == []C22_NonEmpty /\ [][C22_CreationStep]_vars

\* ETH was subscribed and queried, BTC traded: only BTC has an entry
C22_Witness ==
    /\ DOMAIN histories = {"BTC"}
    /\ Fresh
    /\ lastCall.coin = "ETH"
    /\ subscribed_coins = <<"BTC", "ETH">>
    /\ \E i \in 1..Len(tasks) : tasks[i].pc = "streaming"

\* the last n elements of a sequence, n > 0
LastN(s, n) == SubSeq(s, Max(Len(s) - n, 0) + 1, Len(s))

\* C23: reader consistency: under every interleaving of get_candles calls
\* with the ingestion of trade batches, the returned sequence is the
\* symbol's history after a prefix of the delivered trades was completely
\* folded in delivery order; no returned candle has h < l or lacks its o.
C23_PrefixSnapshot ==
    lastCall.op = "get_candles" =>
        LET prefix == SubSeq(trace, 1, lastCall.at)
            folded == FoldValues(<<>>, SelectSeq(prefix, LAMBDA e : e.coin = lastCall.coin))
        IN  /\ ResultView = LastN(folded, lastCall.limit)
            /\ \A k \in 1..Len(ResultView) :
                   /\ DOMAIN ResultView[k] = {"t", "o", "h", "l", "c"}
                   /\ ResultView[k].l <= ResultView[k].h

\* a read between two batches: the history has moved on since
C23_Witness ==
    /\ lastCall.op = "get_candles"
    /\ lastCall.at = 1
    /\ Len(trace) = 2
    /\ result # <<>>
    /\ trace[2].coin = lastCall.coin
    /\ ResultView # LastN(CandlesOf(lastCall.coin), lastCall.limit)

\* the trades folded by the step, in the order they were folded
NewTrades == SubSeq(trace', Len(trace) + 1, Len(trace'))

C27_IsolationStep ==
    LET touched == {NewTrades[k].coin : k \in 1..Len(NewTrades)}
    IN  \A coin \in Coins :
            IF coin \in touched
            THEN CandlesOf(coin)' =
                     FoldValues(CandlesOf(coin),
                                SelectSeq(NewTrades, LAMBDA e : e.coin = coin))
            ELSE /\ CandlesOf(coin)' = CandlesOf(coin)
                 /\ (coin \in DOMAIN histories') = (coin \in DOMAIN histories)

\* C27: per-symbol isolation: ingesting a trade record of symbol A changes
\* only A's history; the candle sequence of every other symbol and the set
\* of other mapping keys stay as they were, also when the records of several
\* symbols are interleaved within one batch.
C27_PerSymbolIsolation == [][C27_IsolationStep]_vars

\* trades of the two symbols were folded one after the other: each symbol
\* holds the candle of its own trade
C27_Witness ==
    /\ Len(trace) = 2
    /\ trace[1].coin = "ETH"
    /\ trace[2].coin = "BTC"
    /\ trace[2].px # trace[1].px
    /\ DOMAIN histories = {"BTC", "ETH"}
    /\ CandlesOf("ETH") = FoldValues(<<>>, <<trace[1]>>)
    /\ CandlesOf("BTC") = FoldValues(<<>>, <<trace[2]>>)

\* the candles of coin in the memory m, as values
CandlesIn(m, coin) ==
    [i \in 1..Len(m.histories[coin].candles) |-> m.heap[m.histories[coin].candles[i]]]

\* C24: folding is idempotent under replay: for every history state and
\* every trade (ts_ms, price), add_trade(ts_ms, price) applied twice in
\* succession leaves the history in the state reached after applying it once.
C24_ReplayIdempotent ==
    /\ \A coin \in Coins, tr \in Trades :
           LET once  == add_trade(ensure_history(Memory, coin), coin, tr.ts, tr.px)
               twice == add_trade(once, coin, tr.ts, tr.px)
           IN  /\ twice.histories = once.histories
               /\ CandlesIn(twice, coin) = CandlesIn(once, coin)
    /\ (Len(trace) >= 2 /\ trace[Len(trace)] = trace[Len(trace) - 1])
           => CandlesOf("BTC") = FoldValues(<<>>, SubSeq(trace, 1, Len(trace) - 1))

\* the same trade was folded twice in succession, after the first candle
C24_Witness ==
    /\ Len(trace) = 2
    /\ trace[1] = trace[2]
    /\ trace[1].ts % BucketMs # 0
    /\ Len(CandlesOf("BTC")) = 1

\* the frame is a subscription acknowledgement
IsAck(frame) ==
    /\ "channel" \in DOMAIN frame
    /\ frame.channel = "subscriptionResponse"

C26_AckStep ==
    (Received /\ IsAck(lastFrame')) =>
        /\ histories' = histories
        /\ heap' = heap
        /\ tasks' = tasks
        /\ fails' = fails

C26_TradeStep ==
    (Received /\ IsBatch(lastFrame')) =>
        \A coin \in Coins :
            CandlesOf(coin)' =
                FoldValues(CandlesOf(coin),
                           SelectSeq(NewTrades, LAMBDA e : e.coin = coin))

\* C26: subscription acknowledgements are informational only: a frame on
\* the subscriptionResponse channel, whatever its data payload, changes no
\* candle history and does not tear down the connection; trade frames are
\* folded whether or not an acknowledgement was received before them.
C26_AcksInformational == [][C26_AckStep /\ C26_TradeStep]_vars

\* C28: running implies a live background loop: in every reachable state
\* where the running flag is true, the background connection task exists
\* and has not terminated.
C28_RunningHasLiveLoop ==
    running => (ws_task # 0 /\ tasks[ws_task].pc \notin Terminal)

C25_Backfilled ==
    main.pc = "start" =>
        \A k \in 1..Len(main.coins) :
            ~main.fetched[k].failed =>
                /\ ~get_candles(Memory, main.coins[k], CANDLE_LIMIT).raised
                /\ get_candles(Memory, main.coins[k], CANDLE_LIMIT).ret
                       = main.fetched[k].candles

C25_BackfillStep ==
    (main.pc = "backfill" /\ main' # main) =>
        /\ main'.pc \in {"backfill", "start"}
        /\ main'.next = main.next + 1

\* C25: startup backfill precedes live data: when main_loop calls
\* ws_store.start, for every coin whose fetch_candles call succeeded
\* get_candles returns the fetched historical candles; a backfill failure
\* for one coin prevents neither the backfill of the remaining coins nor the
\* start of the store.
C25_BackfillPrecedesLive == []C25_Backfilled /\ [][C25_BackfillStep]_vars

C29_CapInSizing ==
    \A sig \in SignalKinds, equity \in Equities, n \in MaxPositions..(MaxPositions + 1) :
        compute_position_size(sig.entry_price, sig.stop_loss, equity, n, MaxPositions) = None

\* C29: max_positions is enforced across a trading iteration:
\* compute_position_size returns None whenever open_positions_count >=
\* cfg.max_positions, and in any single main-loop iteration the entry orders
\* submitted plus the open positions fetched at its start never exceed
\* cfg.max_positions, for any number of signals.
C29_MaxPositionsEnforced ==
    /\ C29_CapInSizing
    /\ main.pc \in {"signals", "sleep"} =>
           main.orders + main.open_positions_count <= MaxPositions

====
